---- MODULE Spec2Model ----
(***************************************************************************)
(* Verification model of the stock_screener core:                          *)
(*   - RiskManager            (src/src/risk_manager.py)                    *)
(*   - BrokerIntegration      (src/src/broker_integration.py, portfolio)   *)
(*   - TechnicalIndicators    (src/src/technical_analysis.py)              *)
(*   - Backtester             (src/backtesting.py, src/backtester.py)      *)
(*   - OptionsAnalysis        (src/src/options_analysis.py)                *)
(*   - TechnicalAnalysis      (src/src/technical_analysis.py)              *)
(*   - Pipeline, TradingBot   (src/src/pipeline.py, src/src/trading_bot.py)*)
(* Money is counted in integer cents; the float limits 0.1 and 0.02 are    *)
(* kept as exact fractions and every comparison is cross-multiplied.       *)
(***************************************************************************)
EXTENDS Integers, Sequences, FiniteSets, TLC

VARIABLES
    rm_pc,          \* last RiskManager entry point called: "none" | "validate" | "size"
    signal,         \* the signal dict handed to the RiskManager
    portfolio,      \* the portfolio dict handed to the RiskManager
    stock_data,     \* the stock_data frame handed to calculate_position_size
    valid,          \* return value of validate_trade
    position_size,  \* return value of calculate_position_size (a fraction <<num, den>>)
    data,           \* the price table: rows [Close, SMA_20, SMA_50, RSI]
    trades,         \* Backtester.trades
    current_capital,\* Backtester.current_capital
    bt_pc,          \* "idle" | "momentum" | "mean_reversion": the replay in progress
    i,              \* loop index of the replay (0-based, as in the source)
    position,       \* local of the replay: 0 FLAT, 1 LONG
    entry_price,    \* local of the replay
    entry_date,     \* local of the replay (-1 is None)
    reports,        \* the reports returned so far, in call order
    latest,         \* number of bars in the table at the last get_signals call
    cross_signal,   \* 'sma_20_50_cross' of the last get_signals call
    frame_cols,     \* columns of the caller's price DataFrame
    market,         \* per ticker: option chain, stock price, trend and sentiment
    oa,             \* OptionsAnalysis attributes: calls, puts, current_price
    op_pc,          \* per ticker: "start" | "analyzed" | "done"
    quotes,         \* per ticker: what suggest_strategies returned (or raised)
    prices,         \* the Close column handed to the series-level entry points
    period,         \* the window handed to calculate_sma
    ser_pc,         \* "none" | "sma" | "backtest"
    sma,            \* return value of calculate_sma
    rsi,            \* the RSI column computed for the short series
    series_report,  \* return value of the series-level run_backtest
    indicators,     \* the indicators dict handed to generate_signals
    generated,      \* return value of generate_signals (<<>> before the call)
    tickers,        \* TradingBot.tickers
    collector,      \* the methods the pipeline's data_collector offers
    broker,         \* the BrokerIntegration: simulation_mode and the account
    bot_pc,         \* position of TradingBot.run / _process_ticker
    ticker_idx,     \* position of `for ticker in self.tickers` (1-based)
    bot_portfolio,  \* local `portfolio` of _process_ticker
    bot_signal,     \* local `signal` of _process_ticker (<<>> is None)
    bot_valid,      \* what validate_trade returned in this pass
    bot_size,       \* local `position_size` of _process_ticker
    processed,      \* the tickers _process_ticker was called for, in order
    executed        \* the signals handed to broker.execute_trade, in order

rm_vars  == <<rm_pc, signal, portfolio, stock_data, valid, position_size>>
bt_vars  == <<trades, current_capital, bt_pc, i, position, entry_price, entry_date, reports>>
sig_vars == <<latest, cross_signal, frame_cols>>
opt_vars == <<market, oa, op_pc, quotes>>
ser_vars == <<prices, period, ser_pc, sma, rsi, series_report>>
gen_vars == <<indicators, generated>>
bot_vars == <<tickers, collector, broker, bot_pc, ticker_idx,
              bot_portfolio, bot_signal, bot_valid, bot_size, processed, executed>>
vars     == <<rm_vars, data, bt_vars, sig_vars, opt_vars, ser_vars, gen_vars, bot_vars>>

----------------------------------------------------------------------------
(* Python helpers *)

\* dict.get(key, default)
Get(d, k, default) == IF k \in DOMAIN d THEN d[k] ELSE default

Abs(x) == IF x < 0 THEN -x ELSE x

\* an optional value is <<>> (key absent) or <<v>> (key present)
Opt(S) == {<<>>} \cup {<<v>> : v \in S}

----------------------------------------------------------------------------
(* RiskManager configuration, src/src/risk_manager.py:12 *)

\* max_position_size = 0.1
MaxPositionSizeNum == 1
MaxPositionSizeDen == 10
\* max_portfolio_risk = 0.02 (an absolute amount: 2 cents)
MaxPortfolioRiskCents == 2

----------------------------------------------------------------------------
(* Input domains *)

MaxPositions == 1

PriceVals    == {-100, 0, 2, 5000}
QuantityVals == {0, 1, 10}
StopVals     == {0, 1, 4999, 5000}

MkSignal(p, q, s) ==
    [k \in ({"action"}
            \cup (IF p = <<>> THEN {} ELSE {"price"})
            \cup (IF q = <<>> THEN {} ELSE {"quantity"})
            \cup (IF s = <<>> THEN {} ELSE {"stop_loss"}))
       |-> CASE k = "price"     -> p[1]
             [] k = "quantity"  -> q[1]
             [] k = "stop_loss" -> s[1]
             [] OTHER           -> 0]

Signals == {MkSignal(p, q, s) : p \in Opt(PriceVals), q \in Opt(QuantityVals),
                                s \in Opt(StopVals)}

\* a position as the RiskManager reads it (quantity, current_price, stop_loss)
RiskPositions ==
    { [quantity |-> 10, current_price |-> 5000, stop_loss |-> 4500],
      [quantity |-> 1,  current_price |-> 5000, stop_loss |-> 4999] }

MapPositions ==
    { [quantity |-> 10, current_price |-> 5000, stop_loss |-> 4500] }

\* a position as BrokerIntegration.get_portfolio builds it: no stop_loss
BrokerPosition ==
    [quantity |-> 10, market_value |-> 50000, avg_entry_price |-> 4800,
     current_price |-> 5000, unrealized_pl |-> 2000]

Tickers == {"AAPL", "MSFT"}

\* portfolio['positions'] is a list of position dicts or a mapping
\* ticker -> position dict
SeqsUpTo(S, n) == UNION {[1..m -> S] : m \in 0..n}

PositionLists == {[kind |-> "list", items |-> l] :
                      l \in SeqsUpTo(RiskPositions, MaxPositions)}
PositionMaps  == {[kind |-> "dict", items |-> m] :
                      m \in UNION {[T -> MapPositions \cup {BrokerPosition}] :
                                      T \in SUBSET Tickers}}

BuyingPowerVals    == {0, 100000}
CashVals           == {0, 10000, 10000000}
PortfolioValueVals == {0, 10000000}

MkPortfolio(bp, c, pv, pos) ==
    [k \in ((IF bp = <<>> THEN {} ELSE {"buying_power"})
            \cup (IF c = <<>> THEN {} ELSE {"cash"})
            \cup (IF pv = <<>> THEN {} ELSE {"portfolio_value"})
            \cup (IF pos = <<>> THEN {} ELSE {"positions"}))
       |-> CASE k = "buying_power"    -> [kind |-> "num", items |-> bp]
             [] k = "cash"            -> [kind |-> "num", items |-> c]
             [] k = "portfolio_value" -> [kind |-> "num", items |-> pv]
             [] OTHER                 -> pos[1]]

\* numeric field of a portfolio dict: portfolio.get(key, 0)
NumField(p, k) == IF k \in DOMAIN p THEN p[k].items[1] ELSE 0

----------------------------------------------------------------------------
(* BrokerIntegration.get_portfolio *)

\* simulation mode
simulate_portfolio == MkPortfolio(<<>>, <<10000000>>, <<10000000>>,
                                  <<[kind |-> "dict", items |-> <<>>]>>)

\* the snapshots get_portfolio can return: 'portfolio_value', 'cash' and a
\* 'positions' mapping symbol -> position; never a 'buying_power' key
BrokerPortfolios ==
    {MkPortfolio(<<>>, <<c>>, <<pv>>, <<pos>>) :
        c \in CashVals, pv \in PortfolioValueVals,
        pos \in {m \in PositionMaps : \A t \in DOMAIN m.items : m.items[t] = BrokerPosition}}

Portfolios ==
    {MkPortfolio(bp, c, pv, pos) :
        bp \in Opt(BuyingPowerVals), c \in Opt(CashVals), pv \in Opt(PortfolioValueVals),
        pos \in Opt(PositionLists \cup PositionMaps)}

----------------------------------------------------------------------------
(* RiskManager *)

\* for position in positions: a list yields its dicts, a mapping yields its keys
RECURSIVE SetToSeq(_)
SetToSeq(S) == IF S = {} THEN <<>>
               ELSE LET x == CHOOSE y \in S : TRUE
                    IN  <<x>> \o SetToSeq(S \ {x})

Iterate(positions) ==
    IF positions.kind = "list"
    THEN [j \in DOMAIN positions.items |-> [isdict |-> TRUE, d |-> positions.items[j]]]
    ELSE LET ks == SetToSeq(DOMAIN positions.items)
         IN  [j \in DOMAIN ks |-> [isdict |-> FALSE, d |-> <<>>]]

calculate_position_risk(pos) ==
    IF ~pos.isdict
    THEN 0      \* str has no .get: AttributeError, caught, return 0.0
    ELSE LET current_price == Get(pos.d, "current_price", 0)
             stop_loss     == Get(pos.d, "stop_loss", 0)
             quantity      == Get(pos.d, "quantity", 0)
         IN  IF current_price <= 0 \/ stop_loss <= 0 \/ quantity <= 0
             THEN 0
             ELSE Abs(current_price - stop_loss) * quantity

RECURSIVE SumRisk(_, _)
SumRisk(ps, n) == IF n = 0 THEN 0
                  ELSE SumRisk(ps, n - 1) + calculate_position_risk(ps[n])

calculate_current_portfolio_risk(p) ==
    LET positions == Get(p, "positions", [kind |-> "list", items |-> <<>>])
        ps        == Iterate(positions)
    IN  SumRisk(ps, Len(ps))

calculate_trade_risk(s) ==
    LET price     == Get(s, "price", 0)
        stop_loss == Get(s, "stop_loss", 0)
        quantity  == Get(s, "quantity", 0)
    IN  IF price <= 0 \/ stop_loss <= 0 \/ quantity <= 0
        THEN 0
        ELSE Abs(price - stop_loss) * quantity

check_buying_power(s, p) ==
    LET buying_power   == NumField(p, "buying_power")
        estimated_cost == Get(s, "price", 0) * Get(s, "quantity", 0)
    IN  buying_power >= estimated_cost

check_position_size(s, p) ==
    LET portfolio_value == NumField(p, "portfolio_value")
        position_value  == Get(s, "price", 0) * Get(s, "quantity", 0)
    IN  position_value * MaxPositionSizeDen <= portfolio_value * MaxPositionSizeNum

check_portfolio_risk(s, p) ==
    LET current_risk == calculate_current_portfolio_risk(p)
        new_risk     == calculate_trade_risk(s)
    IN  (current_risk + new_risk) <= MaxPortfolioRiskCents

validate_trade(s, p) ==
    IF ~check_buying_power(s, p) THEN FALSE
    ELSE IF ~check_position_size(s, p) THEN FALSE
    ELSE IF ~check_portfolio_risk(s, p) THEN FALSE
    ELSE TRUE

\* stock_data frames: the 'close' column (absent, empty or a list of closes)
CloseVals  == {-100, 0, 5000, 20000}
StockDatas == {[cols |-> {}, close |-> <<>>], [cols |-> {"close"}, close |-> <<>>]}
              \cup {[cols |-> {"close"}, close |-> <<5000, c>>] : c \in CloseVals}

Zero == <<0, 1>>

\* the guard on the price is lost: a negative price gives a negative size
\* (a zero price still ends in the exception handler)
calculate_position_size_noguard(s, p, sd) ==
    LET portfolio_value == NumField(p, "portfolio_value")
    IN  IF portfolio_value <= 0 THEN Zero
        ELSE IF "close" \notin sd.cols THEN Zero
        ELSE IF Len(sd.close) = 0 THEN Zero
        ELSE LET current_price == sd.close[Len(sd.close)]
             IN  IF current_price = 0 THEN Zero
                 ELSE IF current_price < 0
                 THEN <<-(portfolio_value * MaxPositionSizeNum),
                        MaxPositionSizeDen * (-current_price)>>
                 ELSE <<portfolio_value * MaxPositionSizeNum,
                        MaxPositionSizeDen * current_price>>

calculate_position_size(s, p, sd) ==
    LET portfolio_value == NumField(p, "portfolio_value")
    IN  IF portfolio_value <= 0 THEN Zero
        ELSE IF "close" \notin sd.cols THEN Zero          \* KeyError, caught
        ELSE IF Len(sd.close) = 0 THEN Zero               \* IndexError, caught
        ELSE LET current_price == sd.close[Len(sd.close)]
             IN  IF current_price <= 0 THEN Zero
                 ELSE <<portfolio_value * MaxPositionSizeNum,
                        MaxPositionSizeDen * current_price>>

----------------------------------------------------------------------------
(* RiskManager entry points as actions *)

RiskIdle ==
    /\ rm_pc = "none"
    /\ valid = FALSE
    /\ position_size = Zero

\* the caller's arguments
RiskInputs ==
    /\ signal \in Signals
    /\ portfolio \in Portfolios
    /\ stock_data \in StockDatas

NoRiskInputs ==
    /\ signal = MkSignal(<<>>, <<>>, <<>>)
    /\ portfolio = simulate_portfolio
    /\ stock_data = [cols |-> {}, close |-> <<>>]

ValidateTrade ==
    /\ rm_pc = "none"
    /\ rm_pc' = "validate"
    /\ valid' = validate_trade(signal, portfolio)
    /\ UNCHANGED <<signal, portfolio, stock_data, position_size>>
    /\ UNCHANGED <<data, bt_vars, sig_vars, opt_vars, ser_vars, gen_vars, bot_vars>>

CalculatePositionSize ==
    /\ rm_pc = "none"
    /\ rm_pc' = "size"
    /\ position_size' = calculate_position_size(signal, portfolio, stock_data)
    /\ UNCHANGED <<signal, portfolio, stock_data, valid>>
    /\ UNCHANGED <<data, bt_vars, sig_vars, opt_vars, ser_vars, gen_vars, bot_vars>>

----------------------------------------------------------------------------
(* Fractions <<num, den>> with den > 0; NaN is <<>>.  Every comparison    *)
(* with NaN is false, as for floats.                                      *)

NaN == <<>>

Lt(a, b) == a /= NaN /\ b /= NaN /\ a[1] * b[2] < b[1] * a[2]
Gt(a, b) == Lt(b, a)
Le(a, b) == a /= NaN /\ b /= NaN /\ a[1] * b[2] <= b[1] * a[2]
Ge(a, b) == Le(b, a)
Num(n)   == <<n, 1>>

RECURSIVE GCD(_, _)
GCD(a, b) == IF b = 0 THEN a ELSE GCD(b, a % b)

\* two fractions with positive denominators denote the same number
SameNumber(a, b) ==
    LET ga == GCD(Abs(a[1]), a[2])
        gb == GCD(Abs(b[1]), b[2])
    IN  a[1] \div ga = b[1] \div gb /\ a[2] \div ga = b[2] \div gb

\* sum of a short sequence of integers
RECURSIVE SumSeq(_)
SumSeq(s) == IF s = <<>> THEN 0 ELSE Head(s) + SumSeq(Tail(s))

\* max(...) and min(...) of a non-empty sequence of integers
MaxOf(s) == CHOOSE x \in {s[n] : n \in DOMAIN s} : \A n \in DOMAIN s : s[n] <= x
MinOf(s) == CHOOSE x \in {s[n] : n \in DOMAIN s} : \A n \in DOMAIN s : x <= s[n]

----------------------------------------------------------------------------
(* Price series: piecewise linear closes, one slope per segment *)

SegLen == 25
NSeg   == 5
Slopes == {-2, 1, 3}

StartPrice == 1 + 2 * NSeg * SegLen

\* f[lo] + ... + f[hi]
RECURSIVE SumRange(_, _, _)
SumRange(f, lo, hi) ==
    IF lo > hi THEN 0
    ELSE IF lo = hi THEN f[lo]
    ELSE LET mid == (lo + hi) \div 2
         IN  SumRange(f, lo, mid) + SumRange(f, mid + 1, hi)

\* the close of bar n (1-based) is the start price plus the slopes of the
\* n - 1 steps before it
BuildCloses(sl) ==
    [n \in 1..(NSeg * SegLen + 1) |->
        LET full == (n - 1) \div SegLen
            rest == (n - 1) % SegLen
        IN  StartPrice + SegLen * SumRange(sl, 1, full)
                       + (IF rest > 0 THEN rest * sl[full + 1] ELSE 0)]

CloseSeries == {BuildCloses(sl) : sl \in [1..NSeg -> Slopes]}

----------------------------------------------------------------------------
(* TechnicalIndicators, src/src/technical_analysis.py *)

SmaShort  == 20
SmaLong   == 50
RsiPeriod == 14

\* Series.rolling(window=w).mean() at row n (1-based): NaN until w rows exist
\* the window is taken as satisfied one bar late
RollingMean_late(c, w, n) ==
    IF n <= w THEN NaN ELSE <<SumRange(c, n - w + 1, n), w>>

RollingMean(c, w, n) == IF n < w THEN NaN ELSE <<SumRange(c, n - w + 1, n), w>>

\* Close.diff(), then where(delta > 0, 0) and -where(delta < 0, 0);
\* the first delta is NaN and is replaced by 0 in both
Gain(c, n) == IF n = 1 THEN 0 ELSE IF c[n] - c[n - 1] > 0 THEN c[n] - c[n - 1] ELSE 0
Loss(c, n) == IF n = 1 THEN 0 ELSE IF c[n] - c[n - 1] < 0 THEN c[n - 1] - c[n] ELSE 0

\* calculate_rsi(periods) at row n: rolling means of gain and loss (their
\* common divisor cancels in rs), rs = gain / loss, 100 - 100 / (1 + rs)
rsi_at(c, periods, n) ==
    IF n < periods THEN NaN
    ELSE LET gain == [m \in 1..Len(c) |-> Gain(c, m)]
             loss == [m \in 1..Len(c) |-> Loss(c, m)]
             g    == SumRange(gain, n - periods + 1, n)
             l    == SumRange(loss, n - periods + 1, n)
         IN  IF l = 0
             THEN IF g = 0 THEN NaN       \* rs = 0/0
                  ELSE Num(100)           \* rs = inf: 100 - 100/inf
             ELSE <<100 * g, g + l>>      \* 100 - 100/(1 + g/l)

\* the default periods=14
calculate_rsi(c, n) == rsi_at(c, RsiPeriod, n)

calculate_all_indicators(c) ==
    [n \in 1..Len(c) |->
        [Close  |-> c[n],
         SMA_20 |-> RollingMean(c, SmaShort, n),
         SMA_50 |-> RollingMean(c, SmaLong, n),
         RSI    |-> calculate_rsi(c, n)]]

Tables == {calculate_all_indicators(c) : c \in CloseSeries}

\* get_signals()['trend']['sma_20_50_cross'] for the table cut after row n
get_signals(tbl, n) ==
    IF Gt(tbl[n].SMA_20, tbl[n].SMA_50) THEN "BULLISH" ELSE "BEARISH"

----------------------------------------------------------------------------
(* Backtester, src/backtesting.py *)

initial_capital == 100000
Warmup          == 20
RsiOversold     == 30
RsiOverbought   == 70

MaxRuns == 2

Strategies == {"momentum", "mean_reversion"}

\* self.data.iloc[n]
iloc(n) == data[n + 1]

\* the entry test no longer looks at the position
EntryAllowed_always(pos) == TRUE

\* `if position == 0:` and `elif position == 1:`
EntryAllowed(pos) == pos = 0
ExitAllowed(pos)  == pos = 1

\* the previous bar is tested with `not >` in place of `<=`
EntryTrigger_notabove(strategy, current_row, prev_row) ==
    IF strategy = "momentum"
    THEN /\ Gt(current_row.SMA_20, current_row.SMA_50)
         /\ ~Gt(prev_row.SMA_20, prev_row.SMA_50)
    ELSE Lt(current_row.RSI, Num(RsiOversold))

EntryTrigger(strategy, current_row, prev_row) ==
    IF strategy = "momentum"
    THEN /\ Gt(current_row.SMA_20, current_row.SMA_50)
         /\ Le(prev_row.SMA_20, prev_row.SMA_50)
    ELSE Lt(current_row.RSI, Num(RsiOversold))

ExitTrigger(strategy, current_row, prev_row) ==
    IF strategy = "momentum"
    THEN /\ Lt(current_row.SMA_20, current_row.SMA_50)
         /\ Ge(prev_row.SMA_20, prev_row.SMA_50)
    ELSE Gt(current_row.RSI, Num(RsiOverbought))

\* the pnl is taken as entry minus exit
TradeResult_reversed(strategy, current_row, date) ==
    LET exit_price  == current_row.Close
        profit_loss == entry_price - exit_price
    IN  [entry_date      |-> entry_date,
         exit_date       |-> date,
         entry_price     |-> entry_price,
         exit_price      |-> exit_price,
         profit_loss     |-> profit_loss,
         profit_loss_pct |-> <<100 * profit_loss, entry_price>>,
         holding_period  |-> date - entry_date,
         strategy        |-> strategy]

TradeResult(strategy, current_row, date) ==
    LET exit_price  == current_row.Close
        profit_loss == exit_price - entry_price
    IN  [entry_date      |-> entry_date,
         exit_date       |-> date,
         entry_price     |-> entry_price,
         exit_price      |-> exit_price,
         profit_loss     |-> profit_loss,
         profit_loss_pct |-> <<100 * profit_loss, entry_price>>,
         holding_period  |-> date - entry_date,
         strategy        |-> strategy]

\* the closed trade is not appended
record_trade_dropped(ledger, t) == ledger

\* self.trades.append(...)
record_trade(ledger, t) == Append(ledger, t)

\* self.current_capital *= (1 + profit_loss_pct/100): the capital is kept as
\* the initial capital and the sequence of pnl percentages compounded into it
compound(capital, pct) == [capital EXCEPT !.compounded = Append(@, pct)]

NoTradesReport == [error |-> "No trades executed"]

\* np.mean(profit_pcts) / np.std(profit_pcts) if len(profit_pcts) > 1 else 0.
\* The quotient of two numpy scalars does not raise on a zero divisor: it is
\* nan for 0/0 and an infinity otherwise.  A quotient with a non-zero
\* divisor is kept as the list it is taken of.
sharpe_ratio(profit_pcts) ==
    IF ~(Len(profit_pcts) > 1) THEN [kind |-> "zero"]
    ELSE IF \A n \in DOMAIN profit_pcts : SameNumber(profit_pcts[n], profit_pcts[1])
         THEN IF profit_pcts[1][1] = 0 THEN [kind |-> "nan"]
              ELSE IF profit_pcts[1][1] > 0 THEN [kind |-> "inf"]
              ELSE [kind |-> "-inf"]
    ELSE [kind |-> "mean_over_std", of |-> profit_pcts]

\* avg_profit_loss_pct and total_return_pct, which repeat profit_pcts and
\* final_capital, are left out of the report
generate_backtest_stats ==
    IF trades = <<>> THEN NoTradesReport
    ELSE LET profits         == [n \in DOMAIN trades |-> trades[n].profit_loss]
             profit_pcts     == [n \in DOMAIN trades |-> trades[n].profit_loss_pct]
             holding_periods == [n \in DOMAIN trades |-> trades[n].holding_period]
         IN
         [total_trades       |-> Len(trades),
          winning_trades     |-> Cardinality({n \in DOMAIN profits : profits[n] > 0}),
          losing_trades      |-> Cardinality({n \in DOMAIN profits : profits[n] <= 0}),
          avg_profit_loss    |-> <<SumSeq(profits), Len(profits)>>,
          max_profit         |-> MaxOf(profits),
          max_loss           |-> MinOf(profits),
          avg_holding_period |-> <<SumSeq(holding_periods), Len(holding_periods)>>,
          final_capital      |-> current_capital,
          sharpe_ratio       |-> sharpe_ratio(profit_pcts)]

\* Backtester(data): __init__
BacktesterInit ==
    /\ trades = <<>>
    /\ current_capital = [initial |-> initial_capital, compounded |-> <<>>]
    /\ bt_pc = "idle"
    /\ i = 0
    /\ position = 0
    /\ entry_price = 0
    /\ entry_date = -1
    /\ reports = <<>>

\* run_backtest(strategy) up to the first loop test
RunBacktest(strategy) ==
    /\ bt_pc = "idle"
    /\ Len(reports) < MaxRuns
    /\ strategy \in Strategies
    /\ bt_pc' = strategy
    /\ position' = 0
    /\ entry_price' = 0
    /\ entry_date' = -1
    /\ i' = Warmup
    /\ UNCHANGED <<trades, current_capital, reports>>
    /\ UNCHANGED <<rm_vars, data, sig_vars, opt_vars, ser_vars, gen_vars, bot_vars>>

\* run_backtest with a tag that is neither strategy: raise ValueError
RunUnknownStrategy ==
    /\ bt_pc = "idle"
    /\ Len(reports) < MaxRuns
    /\ reports' = Append(reports, [strategy |-> "unknown", report |-> [raised |-> "ValueError"]])
    /\ UNCHANGED <<trades, current_capital, bt_pc, i, position, entry_price, entry_date>>
    /\ UNCHANGED <<rm_vars, data, sig_vars, opt_vars, ser_vars, gen_vars, bot_vars>>

\* one iteration of `for i in range(20, len(self.data))`
ReplayStep ==
    /\ bt_pc \in Strategies
    /\ i < Len(data)
    /\ LET current_row == iloc(i)
           prev_row    == iloc(i - 1)
       IN  IF EntryAllowed(position)
           THEN IF EntryTrigger(bt_pc, current_row, prev_row)
                THEN /\ position' = 1
                     /\ entry_price' = current_row.Close
                     /\ entry_date' = i
                     /\ UNCHANGED <<trades, current_capital>>
                ELSE UNCHANGED <<position, entry_price, entry_date, trades, current_capital>>
           ELSE IF ExitAllowed(position) /\ ExitTrigger(bt_pc, current_row, prev_row)
                THEN LET t == TradeResult(bt_pc, current_row, i)
                     IN  /\ trades' = record_trade(trades, t)
                         /\ position' = 0
                         /\ current_capital' = compound(current_capital, t.profit_loss_pct)
                         /\ UNCHANGED <<entry_price, entry_date>>
                ELSE UNCHANGED <<position, entry_price, entry_date, trades, current_capital>>
    /\ i' = i + 1
    /\ UNCHANGED <<bt_pc, reports>>
    /\ UNCHANGED <<rm_vars, data, sig_vars, opt_vars, ser_vars, gen_vars, bot_vars>>

\* the loop is exhausted: return self._generate_backtest_stats()
ReturnStats ==
    /\ bt_pc \in Strategies
    /\ i >= Len(data)
    /\ reports' = Append(reports, [strategy |-> bt_pc, report |-> generate_backtest_stats])
    /\ bt_pc' = "idle"
    /\ UNCHANGED <<trades, current_capital, i, position, entry_price, entry_date>>
    /\ UNCHANGED <<rm_vars, data, sig_vars, opt_vars, ser_vars, gen_vars, bot_vars>>

----------------------------------------------------------------------------
(* TechnicalIndicators(data).get_signals(), called once per new bar *)

\* the columns of a price frame as the data source delivers it
PriceColumns == {"Open", "High", "Low", "Close", "Volume"}

\* the columns calculate_all_indicators assigns on self.data, which is the
\* very object the caller passed to the constructor
IndicatorColumns ==
    {"SMA_20", "SMA_50", "EMA_20", "EMA_50", "MACD", "MACD_signal",
     "MACD_hist", "RSI", "STOCH_K", "STOCH_D", "BB_middle", "BB_upper",
     "BB_lower"}

SignalsInit ==
    /\ latest = 0
    /\ cross_signal = "NONE"
    /\ frame_cols = PriceColumns

GetSignals ==
    /\ latest < Len(data)
    /\ latest' = latest + 1
    /\ frame_cols' = frame_cols \cup IndicatorColumns
    /\ cross_signal' = get_signals(data, latest + 1)
    /\ UNCHANGED <<rm_vars, data, bt_vars, opt_vars, ser_vars, gen_vars, bot_vars>>

----------------------------------------------------------------------------
(* OptionsAnalysis (src/src/options_analysis.py): one instance, two tickers *)

\* a row of an option chain; impliedVolatility in percent
Leg(strike, lastPrice, iv) ==
    [strike |-> strike, lastPrice |-> lastPrice, impliedVolatility |-> iv]

CallChains ==
    { <<>>,
      <<Leg(100, 2, 20)>>,
      <<Leg(95, 5, 20), Leg(105, 2, 30)>>,
      <<Leg(100, 0, 20)>>,
      <<Leg(100, 100, 20)>> }

PutChains ==
    { <<>>,
      <<Leg(100, 2, 25)>>,
      <<Leg(100, 5, 25)>>,
      <<Leg(100, 0, 25)>> }

\* options_chain dictionaries: either key may be absent
ChainDicts(cs, ps) ==
    { [k \in {} |-> <<>>] }
        \cup { [k \in {"calls"} |-> c] : c \in cs }
        \cup { [k \in {"puts"} |-> p] : p \in ps }
        \cup { [calls |-> c, puts |-> p] : c \in cs, p \in ps }

Trends == {"BULLISH", "BEARISH"}

\* sentiment_score in hundredths: 60 is 0.6, 40 is 0.4
SentimentVals == {30, 40, 60, 70}

\* price is the last Close of stock_data; <<>> is a frame without rows
MkMarket(chain, price, trend, sentiment) ==
    [chain |-> chain, price |-> price, trend |-> trend,
     sentiment |-> sentiment]

\* the first ticker's inputs vary widely, its peer's are always complete
VariedMarkets ==
    { MkMarket(ch, pr, tr, se) :
        ch \in ChainDicts(CallChains, PutChains),
        pr \in Opt({100, 102}), tr \in Trends, se \in SentimentVals }

PeerMarkets ==
    { MkMarket([calls |-> <<Leg(200, 10, 40)>>,
                puts  |-> <<Leg(200, 8, 40)>>], <<200>>, tr, se) :
        tr \in Trends, se \in {30, 70} }

Markets ==
    { [t \in Tickers |-> IF t = "AAPL" THEN a ELSE b] :
        a \in VariedMarkets, b \in PeerMarkets }

\* the instance after __init__: calls, puts, current_price are not set
FreshOA == [calls |-> <<>>, puts |-> <<>>, current_price |-> <<>>]

\* the attribute assignments of analyze_options_chain, in order; the first
\* statement that raises ends them (the except clause returns an error
\* dictionary and leaves the earlier assignments in place)
analyze_options_chain(o, m) ==
    IF "calls" \notin DOMAIN m.chain THEN o
    ELSE IF "puts" \notin DOMAIN m.chain
         THEN [o EXCEPT !.calls = <<m.chain["calls"]>>]
    ELSE IF m.price = <<>>
         THEN [o EXCEPT !.calls = <<m.chain["calls"]>>,
                        !.puts = <<m.chain["puts"]>>]
    ELSE [calls |-> <<m.chain["calls"]>>, puts |-> <<m.chain["puts"]>>,
          current_price |-> m.price]

\* what a call of suggest_strategies hands back: a list, or an exception
Returned(list) == [fault |-> "", list |-> list]
Raised(exc)    == [fault |-> exc, list |-> <<>>]

\* idxmin of |strike - current_price|: the first row with the least value
AtmIdx(chain, price) ==
    CHOOSE k \in 1..Len(chain) :
        /\ \A j \in 1..Len(chain) :
               Abs(chain[k].strike - price) <= Abs(chain[j].strike - price)
        /\ \A j \in 1..(k-1) :
               Abs(chain[j].strike - price) > Abs(chain[k].strike - price)

\* _find_atm_option on an attribute of the instance: "unset" stands for the
\* AttributeError of reading self.calls, self.puts or self.current_price
find_atm_option(attr, o) ==
    IF attr = <<>> THEN "unset"
    ELSE IF Len(attr[1]) = 0 THEN "none"
    ELSE IF o.current_price = <<>> THEN "unset"
    ELSE "row"

AtmRow(attr, o) == attr[1][AtmIdx(attr[1], o.current_price[1])]

Quote(type, entry, exit, loss, profit, prob, rr, iv) ==
    [strategy_type |-> type, entry_price |-> entry, exit_price |-> exit,
     max_loss |-> loss, max_profit |-> profit, probability_profit |-> prob,
     risk_reward_ratio |-> rr, days_to_expiry |-> 30,
     implied_volatility |-> iv]

\* Covered Call. current_price is a numpy scalar, so the division yields
\* inf on a zero divisor: the pair <<n, 0>> stands for that value.
get_bullish_strategies(o) ==
    LET found == find_atm_option(o.calls, o) IN
    IF found = "unset" THEN Raised("AttributeError")
    ELSE IF found = "none" THEN Returned(<<>>)
    ELSE LET atm_call == AtmRow(o.calls, o)
             price == o.current_price[1]
         IN Returned(<<Quote("Covered Call", Num(price),
                             Num(atm_call.strike),
                             Num(price - atm_call.lastPrice),
                             Num(atm_call.lastPrice), <<68, 100>>,
                             <<atm_call.lastPrice,
                               price - atm_call.lastPrice>>,
                             Num(atm_call.impliedVolatility))>>)

\* Put Spread. Every operand is a Python float, so a zero divisor raises.
get_bearish_strategies(o) ==
    LET found == find_atm_option(o.puts, o) IN
    IF found = "unset" THEN Raised("AttributeError")
    ELSE IF found = "none" THEN Returned(<<>>)
    ELSE LET atm_put == AtmRow(o.puts, o)
             profit100 == 5 * atm_put.strike - 100 * atm_put.lastPrice
         IN IF profit100 = 0 THEN Raised("ZeroDivisionError")
            ELSE Returned(<<Quote("Put Spread", Num(atm_put.strike),
                                  <<95 * atm_put.strike, 100>>,
                                  Num(atm_put.lastPrice),
                                  <<profit100, 100>>, <<45, 100>>,
                                  <<100 * atm_put.lastPrice, profit100>>,
                                  Num(atm_put.impliedVolatility))>>)

\* Iron Condor, from both legs
get_neutral_strategies(o) ==
    LET call_found == find_atm_option(o.calls, o)
        put_found  == IF call_found = "unset" THEN "unset"
                      ELSE find_atm_option(o.puts, o)
    IN
    IF put_found = "unset" THEN Raised("AttributeError")
    ELSE IF call_found = "none" \/ put_found = "none" THEN Returned(<<>>)
    ELSE LET atm_call == AtmRow(o.calls, o)
             atm_put  == AtmRow(o.puts, o)
             price    == o.current_price[1]
             premium  == atm_call.lastPrice + atm_put.lastPrice
         IN IF premium = 0 THEN Raised("ZeroDivisionError")
            ELSE Returned(<<Quote("Iron Condor", Num(price), Num(price),
                                  Num(atm_call.strike - atm_put.strike),
                                  Num(premium), <<68, 100>>,
                                  <<atm_call.strike - atm_put.strike,
                                    premium>>,
                                  <<atm_call.impliedVolatility
                                      + atm_put.impliedVolatility, 2>>)>>)

\* the branch of suggest_strategies with both comparisons inclusive
select_family_inclusive(trend, sentiment) ==
    IF trend = "BULLISH" /\ sentiment >= 60 THEN "Covered Call"
    ELSE IF trend = "BEARISH" /\ sentiment <= 40 THEN "Put Spread"
    ELSE "Iron Condor"

\* the branch suggest_strategies takes
select_family(trend, sentiment) ==
    IF trend = "BULLISH" /\ sentiment > 60 THEN "Covered Call"
    ELSE IF trend = "BEARISH" /\ sentiment < 40 THEN "Put Spread"
    ELSE "Iron Condor"

suggest_strategies(o, trend, sentiment) ==
    LET family == select_family(trend, sentiment) IN
    IF family = "Covered Call" THEN get_bullish_strategies(o)
    ELSE IF family = "Put Spread" THEN get_bearish_strategies(o)
    ELSE get_neutral_strategies(o)

OptionsIdle ==
    /\ oa = FreshOA
    /\ op_pc = [t \in Tickers |-> "start"]
    /\ quotes = [t \in Tickers |-> Returned(<<>>)]

NoMarkets ==
    market = [t \in Tickers |-> MkMarket([k \in {} |-> <<>>], <<>>,
                                         "BEARISH", 40)]

\* analyze_options_chain(stock_data, options_chain) for ticker t
AnalyzeOptionsChain(t) ==
    /\ op_pc[t] = "start"
    /\ oa' = analyze_options_chain(oa, market[t])
    /\ op_pc' = [op_pc EXCEPT ![t] = "analyzed"]
    /\ UNCHANGED <<market, quotes>>
    /\ UNCHANGED <<rm_vars, data, bt_vars, sig_vars, ser_vars, gen_vars, bot_vars>>

\* suggest_strategies(technical_signals, sentiment_score) for ticker t,
\* after the ticker's analysis ("done") or without it ("suggested")
SuggestStrategies(t) ==
    /\ op_pc[t] \in {"start", "analyzed"}
    /\ quotes' = [quotes EXCEPT
                    ![t] = suggest_strategies(oa, market[t].trend,
                                              market[t].sentiment)]
    /\ op_pc' = [op_pc EXCEPT
                    ![t] = IF op_pc[t] = "analyzed" THEN "done"
                           ELSE "suggested"]
    /\ UNCHANGED <<market, oa>>
    /\ UNCHANGED <<rm_vars, data, bt_vars, sig_vars, ser_vars, gen_vars, bot_vars>>

----------------------------------------------------------------------------
(* Entry points taking a bare price series: TechnicalAnalysis.calculate_sma *)
(* (src/src/technical_analysis.py), Backtester.run_backtest                 *)
(* (src/backtester.py) and Backtester.backtest_strategy                     *)
(* (src/src/backtester.py)                                                  *)

MaxBars == 4
BarVals == {1, 2, 4}

ShortSeries == SeqsUpTo(BarVals, MaxBars)
Periods     == 1..(MaxBars + 1)

\* data['Close'].rolling(window=period).mean(): one entry per bar
calculate_sma(c, w) == [n \in 1..Len(c) |-> RollingMean(c, w, n)]

\* Symbolic floats of the series report: nan, a rational, the square root
\* of a rational, or the quotient of a rational by such a square root.
FNaN           == [kind |-> "nan"]
FNum(n, d)     == [kind |-> "num", num |-> n, den |-> d]
FSqrt(n, d)    == [kind |-> "sqrt", num |-> n, den |-> d]
FQuot(e, v)    == [kind |-> "quot", above |-> e, below |-> v]

\* data['Close'].pct_change().dropna() over the common denominator
\* PctDen(c): the k-th return is PctNum(c)[k] / PctDen(c)
RECURSIVE Product(_)
Product(s) == IF s = <<>> THEN 1 ELSE Head(s) * Product(Tail(s))

PctDen(c) == Product(SubSeq(c, 1, Len(c) - 1))
PctNum(c) == [k \in 1..(Len(c) - 1) |-> ((c[k + 1] - c[k]) * PctDen(c)) \div c[k]]

\* n * sum(a^2) - sum(a)^2: the sample variance times n (n - 1) den^2
VarNum(a) == Len(a) * SumSeq([k \in DOMAIN a |-> a[k] * a[k]]) - SumSeq(a) * SumSeq(a)

\* returns.mean() * 252; the mean of no value is nan
calculate_returns(c) ==
    LET a == PctNum(c) IN
    IF Len(a) = 0 THEN FNaN
    ELSE FNum(252 * SumSeq(a), PctDen(c) * Len(a))

\* returns.std() * sqrt(252), the sample deviation (ddof = 1): nan for
\* fewer than two returns
calculate_volatility(c) ==
    LET a == PctNum(c) IN
    IF Len(a) < 2 THEN FNaN
    ELSE IF VarNum(a) = 0 THEN FNum(0, 1)
    ELSE FSqrt(252 * VarNum(a), Len(a) * (Len(a) - 1) * PctDen(c) * PctDen(c))

\* `if volatility == 0: return 0.0`, else (returns - 0.02) / volatility;
\* nan == 0 is false and arithmetic on nan gives nan
calculate_sharpe_ratio(returns, volatility) ==
    IF volatility = FNum(0, 1) THEN FNum(0, 1)
    ELSE IF returns = FNaN \/ volatility = FNaN THEN FNaN
    ELSE FQuot(FNum(100 * returns.num - 2 * returns.den, 100 * returns.den),
               volatility)

\* float(drawdowns.min()): cumulative_returns / expanding max - 1, whose
\* first entry is nan and is skipped; nan when there is no other entry
max_drawdown(c) ==
    LET peak(k) == MaxOf(SubSeq(c, 2, k))
        dd(k)   == <<c[k] - peak(k), peak(k)>>
    IN  IF Len(c) < 2 THEN FNaN
        ELSE LET k == CHOOSE k \in 2..Len(c) : \A j \in 2..Len(c) : Le(dd(k), dd(j))
             IN  FNum(dd(k)[1], dd(k)[2])

\* the report of the except clause
SeriesErrorReport(msg) ==
    [returns |-> FNum(0, 1), volatility |-> FNum(1, 1),
     sharpe_ratio |-> FNum(0, 1), max_drawdown |-> FNum(0, 1), error |-> msg]

\* Backtester.run_backtest(data) of src/backtester.py (timestamp left out)
run_backtest(c) ==
    IF Len(c) = 0 THEN SeriesErrorReport("No data provided for backtest")
    ELSE [returns      |-> calculate_returns(c),
          volatility   |-> calculate_volatility(c),
          sharpe_ratio |-> calculate_sharpe_ratio(calculate_returns(c),
                                                  calculate_volatility(c)),
          max_drawdown |-> max_drawdown(c)]

\* Backtester.backtest_strategy of src/src/backtester.py: index[0] of an
\* empty frame raises, and the except clause returns None
backtest_strategy(c) ==
    IF Len(c) = 0 THEN [returned |-> "None"]
    ELSE [start_date |-> 1, end_date |-> Len(c), total_trades |-> 0,
          winning_trades |-> 0, losing_trades |-> 0, profit_loss |-> FNum(0, 1),
          max_drawdown |-> FNum(0, 1), sharpe_ratio |-> FNum(0, 1)]

SeriesIdle ==
    /\ ser_pc = "none"
    /\ sma = <<>>
    /\ rsi = <<>>
    /\ series_report = [pending |-> TRUE]

SeriesInputs   == prices \in ShortSeries /\ period \in Periods
NoSeriesInputs == prices = <<>> /\ period = 1

CalculateSma ==
    /\ ser_pc = "none"
    /\ sma' = calculate_sma(prices, period)
    /\ ser_pc' = "sma"
    /\ UNCHANGED <<prices, period, rsi, series_report>>
    /\ UNCHANGED <<rm_vars, data, bt_vars, sig_vars, opt_vars, gen_vars, bot_vars>>

\* TechnicalIndicators.calculate_rsi(periods) on a frame of the short series
CalculateRsi ==
    /\ ser_pc = "none"
    /\ rsi' = [n \in 1..Len(prices) |-> rsi_at(prices, period, n)]
    /\ ser_pc' = "rsi"
    /\ UNCHANGED <<prices, period, sma, series_report>>
    /\ UNCHANGED <<rm_vars, data, bt_vars, sig_vars, opt_vars, gen_vars, bot_vars>>

RunSeriesBacktest ==
    /\ ser_pc = "none"
    /\ series_report' = run_backtest(prices)
    /\ ser_pc' = "backtest"
    /\ UNCHANGED <<prices, period, sma, rsi>>
    /\ UNCHANGED <<rm_vars, data, bt_vars, sig_vars, opt_vars, gen_vars, bot_vars>>

BacktestStrategy ==
    /\ ser_pc = "none"
    /\ series_report' = backtest_strategy(prices)
    /\ ser_pc' = "placeholder"
    /\ UNCHANGED <<prices, period, sma, rsi>>
    /\ UNCHANGED <<rm_vars, data, bt_vars, sig_vars, opt_vars, gen_vars, bot_vars>>

----------------------------------------------------------------------------
(* TechnicalAnalysis.generate_signals (src/src/technical_analysis.py)     *)
(* Confidence and volume trend are counted in hundredths.                 *)

RsiVals         == {NaN, Num(20), Num(30), Num(50), Num(70), Num(80)}
MacdVals        == {-1, 0, 1}
VolumeTrendVals == {5, 10, 20}
TrendVals       == {"uptrend", "weak_uptrend", "downtrend", "weak_downtrend",
                    "neutral"}

MkIndicators(r, m, v, t) ==
    [rsi |-> r, macd_signal |-> m,
     volume_profile |-> [volume_trend |-> v], trend |-> [trend |-> t]]

\* complete dictionaries, and dictionaries without the 'trend' entry
IndicatorDicts ==
    LET full == {MkIndicators(r, m, v, t) :
                    r \in RsiVals, m \in MacdVals, v \in VolumeTrendVals,
                    t \in TrendVals}
    IN  full \cup {[k \in {"rsi", "macd_signal", "volume_profile"} |-> d[k]] :
                      d \in {f \in full : f.trend.trend = "neutral"}}

\* one branch of generate_signals: the tags it appends, what it adds
Fired(tag, amount) == [signals |-> <<tag>>, confidence |-> amount]
Silent             == [signals |-> <<>>, confidence |-> 0]

rsi_signals(r) ==
    IF Lt(r, Num(30)) THEN Fired("oversold", 20)
    ELSE IF Gt(r, Num(70)) THEN Fired("overbought", -20)
    ELSE Silent

macd_signals(m) ==
    IF m > 0 THEN Fired("bullish_momentum", 15)
    ELSE IF m < 0 THEN Fired("bearish_momentum", -15)
    ELSE Silent

volume_signals(v) ==
    IF v > 10 THEN Fired("increasing_volume", 10) ELSE Silent

\* a weak trend counts as much as a full one
trend_signals_full(t) ==
    IF t \in {"uptrend", "weak_uptrend"} THEN Fired("uptrend", 25)
    ELSE IF t \in {"downtrend", "weak_downtrend"} THEN Fired("downtrend", -25)
    ELSE Silent

trend_signals(t) ==
    IF t \in {"uptrend", "weak_uptrend"}
    THEN Fired("uptrend", IF t = "uptrend" THEN 25 ELSE 10)
    ELSE IF t \in {"downtrend", "weak_downtrend"}
    THEN Fired("downtrend", -(IF t = "downtrend" THEN 25 ELSE 10))
    ELSE Silent

Min2(a, b) == IF a < b THEN a ELSE b
Max2(a, b) == IF a > b THEN a ELSE b

\* a missing key raises KeyError and the except clause returns the empty result
generate_signals(ind) ==
    IF ~({"rsi", "macd_signal", "volume_profile", "trend"} \subseteq DOMAIN ind)
    THEN [signals |-> <<>>, confidence |-> 0, strength |-> 0]
    ELSE LET a == rsi_signals(ind.rsi)
             b == macd_signals(ind.macd_signal)
             c == volume_signals(ind.volume_profile.volume_trend)
             d == trend_signals(ind.trend.trend)
             confidence == a.confidence + b.confidence + c.confidence
                             + d.confidence
         IN  [signals    |-> a.signals \o b.signals \o c.signals \o d.signals,
              confidence |-> Max2(Min2(confidence, 100), -100),
              strength   |-> Abs(confidence)]

GenIdle      == generated = <<>>
NoIndicators == indicators = MkIndicators(Num(50), 0, 5, "neutral")

GenerateSignals ==
    /\ generated = <<>>
    /\ generated' = <<generate_signals(indicators)>>
    /\ UNCHANGED indicators
    /\ UNCHANGED <<rm_vars, data, bt_vars, sig_vars, opt_vars, ser_vars, bot_vars>>

----------------------------------------------------------------------------
(* TradingBot (src/src/trading_bot.py) over Pipeline (src/src/pipeline.py) *)
(* and BrokerIntegration (src/src/broker_integration.py)                   *)

MaxTickers == 2

TickerLists == SeqsUpTo(Tickers, MaxTickers)

\* what get_current_data can hand back for a ticker; a frame without
\* columns stands for None, which ends in the same exception handler
CurrentFrames ==
    { [cols |-> {}, close |-> <<>>],
      [cols |-> {"close"}, close |-> <<5000>>],
      [cols |-> {"close"}, close |-> <<0>>] }

\* The data_collector object of the pipeline: whether it defines the two
\* methods Pipeline calls on it, and what the data source holds per ticker.
\* The DataCollector class of src/src/data_collector.py defines neither
\* get_historical_data nor get_current_data.
Collectors ==
    [get_historical_data : BOOLEAN, get_current_data : BOOLEAN,
     history : [Tickers -> BOOLEAN], current : [Tickers -> CurrentFrames]]

\* the broker: simulation mode, or an account snapshot seen through the API
LiveAccounts ==
    {MkPortfolio(<<>>, <<c>>, <<pv>>, <<[kind |-> "dict", items |-> <<>>]>>) :
        c \in CashVals, pv \in PortfolioValueVals}

Brokers ==
    {[simulation_mode |-> TRUE, account |-> simulate_portfolio]}
        \cup {[simulation_mode |-> FALSE, account |-> a] : a \in LiveAccounts}

get_portfolio(b) ==
    IF b.simulation_mode THEN simulate_portfolio ELSE b.account

None == <<>>

\* TechnicalAnalysis.analyze and OptionsAnalysis.analyze never raise and
\* return dictionaries without a 'ticker' entry; only that is read below
technical_signals == [rsi |-> 50, macd_signal |-> 0]
options_signals   == [sentiment |-> "neutral", put_call_ratio |-> 1]

\* Pipeline._combine_signals (timestamp left out)
combine_signals(technical, options) ==
    [ticker     |-> Get(technical, "ticker", "None"),
     action     |-> "HOLD",
     confidence |-> 0]

\* Pipeline.process: any exception is caught and None is returned; calling a
\* method the collector does not define raises AttributeError
process(c, ticker) ==
    IF ~c.get_historical_data THEN None
    ELSE IF ~c.history[ticker] THEN None
    ELSE <<combine_signals(technical_signals, options_signals)>>

\* Pipeline.get_stock_data: None on any exception
get_stock_data(c, ticker) ==
    IF ~c.get_current_data THEN [cols |-> {}, close |-> <<>>]
    ELSE c.current[ticker]

\* `if position_size <= 0: return` is never taken
size_rejected_never(size) == FALSE

\* `if position_size <= 0: return`
size_rejected(size) == Le(size, Zero)

\* signal['quantity'] = position_size
with_quantity(s, size) ==
    [key \in DOMAIN s \cup {"quantity"} |->
        IF key = "quantity" THEN size ELSE s[key]]

\* BrokerIntegration.execute_trade: _simulate_trade in simulation mode,
\* otherwise the parameter test before the order is submitted
execute_trade(b, s) ==
    IF b.simulation_mode
    THEN [status |-> "filled", ticker |-> Get(s, "ticker", "None"),
          action |-> Get(s, "action", "None"),
          quantity |-> Get(s, "quantity", "None"),
          price |-> Get(s, "price", 10000)]
    ELSE IF Get(s, "ticker", "None") = "None" \/ Get(s, "action", "") = ""
            \/ Get(s, "quantity", Zero)[1] = 0
         THEN [status |-> "error", message |-> "Missing parameters"]
    ELSE [status |-> "submitted"]

\* a failed pass ends the whole loop
after_return_abort(outcome) == IF outcome = "executed" THEN "for" ELSE "done"

\* `return` in _process_ticker hands control back to the for loop of run
after_return(outcome) == "for"

BotIdle ==
    /\ bot_pc = "init"
    /\ ticker_idx = 0
    /\ bot_portfolio = simulate_portfolio
    /\ bot_signal = None
    /\ bot_valid = FALSE
    /\ bot_size = Zero
    /\ processed = <<>>
    /\ executed = <<>>

BotInputs ==
    /\ tickers \in TickerLists
    /\ collector \in Collectors
    /\ broker \in Brokers

NoBotInputs ==
    /\ tickers = <<>>
    /\ collector = [get_historical_data |-> FALSE, get_current_data |-> FALSE,
                    history |-> [t \in Tickers |-> FALSE],
                    current |-> [t \in Tickers |-> [cols |-> {}, close |-> <<>>]]]
    /\ broker = [simulation_mode |-> TRUE, account |-> simulate_portfolio]

BotFrame == UNCHANGED <<rm_vars, data, bt_vars, sig_vars, opt_vars, ser_vars, gen_vars>>

\* leave _process_ticker and step the for loop
Return(outcome) ==
    /\ bot_pc' = after_return(outcome)
    /\ ticker_idx' = ticker_idx + 1

\* run(test_mode=True) up to the first iteration of the for loop
Run ==
    /\ bot_pc = "init"
    /\ bot_pc' = "for"
    /\ ticker_idx' = 1
    /\ UNCHANGED <<tickers, collector, broker, bot_portfolio, bot_signal,
                   bot_valid, bot_size, processed, executed>>
    /\ BotFrame

\* `for ticker in self.tickers`: call _process_ticker(ticker) and fetch the
\* portfolio
ProcessTicker ==
    /\ bot_pc = "for"
    /\ ticker_idx <= Len(tickers)
    /\ processed' = Append(processed, tickers[ticker_idx])
    /\ bot_portfolio' = get_portfolio(broker)
    /\ bot_signal' = None
    /\ bot_valid' = FALSE
    /\ bot_size' = Zero
    /\ bot_pc' = "pipeline"
    /\ UNCHANGED <<tickers, collector, broker, ticker_idx, executed>>
    /\ BotFrame

\* the list is exhausted: `if test_mode: break`
Break ==
    /\ bot_pc = "for"
    /\ ticker_idx > Len(tickers)
    /\ bot_pc' = "done"
    /\ UNCHANGED <<tickers, collector, broker, ticker_idx, bot_portfolio,
                   bot_signal, bot_valid, bot_size, processed, executed>>
    /\ BotFrame

\* signal = self.pipeline.process(ticker); `if not signal: return`
GetSignal ==
    /\ bot_pc = "pipeline"
    /\ bot_signal' = process(collector, tickers[ticker_idx])
    /\ IF bot_signal' = None
       THEN Return("no_signal")
       ELSE bot_pc' = "validate" /\ UNCHANGED ticker_idx
    /\ UNCHANGED <<tickers, collector, broker, bot_portfolio, bot_valid,
                   bot_size, processed, executed>>
    /\ BotFrame

\* `if not self.risk_manager.validate_trade(signal, portfolio): return`
Validate ==
    /\ bot_pc = "validate"
    /\ bot_valid' = validate_trade(bot_signal[1], bot_portfolio)
    /\ IF ~bot_valid'
       THEN Return("rejected")
       ELSE bot_pc' = "size" /\ UNCHANGED ticker_idx
    /\ UNCHANGED <<tickers, collector, broker, bot_portfolio, bot_signal,
                   bot_size, processed, executed>>
    /\ BotFrame

\* position_size = calculate_position_size(signal, portfolio, stock data)
Size ==
    /\ bot_pc = "size"
    /\ bot_size' = calculate_position_size(bot_signal[1], bot_portfolio,
                       get_stock_data(collector, tickers[ticker_idx]))
    /\ IF size_rejected(bot_size')
       THEN Return("no_size")
       ELSE bot_pc' = "execute" /\ UNCHANGED ticker_idx
    /\ UNCHANGED <<tickers, collector, broker, bot_portfolio, bot_signal,
                   bot_valid, processed, executed>>
    /\ BotFrame

\* signal['quantity'] = position_size; self.broker.execute_trade(signal)
Execute ==
    /\ bot_pc = "execute"
    /\ bot_signal' = <<with_quantity(bot_signal[1], bot_size)>>
    /\ executed' = Append(executed,
                          [pass   |-> ticker_idx,
                           signal |-> bot_signal'[1],
                           result |-> execute_trade(broker, bot_signal'[1])])
    /\ Return("executed")
    /\ UNCHANGED <<tickers, collector, broker, bot_portfolio, bot_valid,
                   bot_size, processed>>
    /\ BotFrame

----------------------------------------------------------------------------
(* Specifications *)

\* RiskManager called on arbitrary arguments
RiskSpecInit ==
    /\ RiskIdle /\ RiskInputs
    /\ data = <<>>
    /\ BacktesterInit /\ SignalsInit
    /\ NoMarkets /\ OptionsIdle
    /\ NoSeriesInputs /\ SeriesIdle
    /\ NoIndicators /\ GenIdle
    /\ NoBotInputs /\ BotIdle

RiskNext == ValidateTrade \/ CalculatePositionSize

SpecRisk == RiskSpecInit /\ [][RiskNext]_vars

\* a Backtester built on an indicator table and run up to MaxRuns times
BacktestSpecInit ==
    /\ RiskIdle /\ NoRiskInputs
    /\ data \in Tables
    /\ BacktesterInit /\ SignalsInit
    /\ NoMarkets /\ OptionsIdle
    /\ NoSeriesInputs /\ SeriesIdle
    /\ NoIndicators /\ GenIdle
    /\ NoBotInputs /\ BotIdle

BacktestNext ==
    \/ \E strategy \in Strategies : RunBacktest(strategy)
    \/ RunUnknownStrategy
    \/ ReplayStep
    \/ ReturnStats

SpecBacktest == BacktestSpecInit /\ [][BacktestNext]_vars

\* the latest-bar signal as the table grows bar by bar
SpecSignals == BacktestSpecInit /\ [][GetSignals]_vars

\* one OptionsAnalysis instance serving two tickers in any order
OptionsSpecInit ==
    /\ RiskIdle /\ NoRiskInputs
    /\ data = <<>>
    /\ BacktesterInit /\ SignalsInit
    /\ market \in Markets /\ OptionsIdle
    /\ NoSeriesInputs /\ SeriesIdle
    /\ NoIndicators /\ GenIdle
    /\ NoBotInputs /\ BotIdle

OptionsNext ==
    \/ \E t \in Tickers : AnalyzeOptionsChain(t)
    \/ \E t \in Tickers : SuggestStrategies(t)

SpecOptions == OptionsSpecInit /\ [][OptionsNext]_vars

\* the series-level entry points called on a short price series
SeriesSpecInit ==
    /\ RiskIdle /\ NoRiskInputs
    /\ data = <<>>
    /\ BacktesterInit /\ SignalsInit
    /\ NoMarkets /\ OptionsIdle
    /\ SeriesInputs /\ SeriesIdle
    /\ NoIndicators /\ GenIdle
    /\ NoBotInputs /\ BotIdle

SeriesNext == CalculateSma \/ CalculateRsi \/ RunSeriesBacktest \/ BacktestStrategy

SpecSeries == SeriesSpecInit /\ [][SeriesNext]_vars

\* generate_signals called on an indicators dictionary
GenerateSpecInit ==
    /\ RiskIdle /\ NoRiskInputs
    /\ data = <<>>
    /\ BacktesterInit /\ SignalsInit
    /\ NoMarkets /\ OptionsIdle
    /\ NoSeriesInputs /\ SeriesIdle
    /\ indicators \in IndicatorDicts /\ GenIdle
    /\ NoBotInputs /\ BotIdle

SpecGenerate == GenerateSpecInit /\ [][GenerateSignals]_vars

\* one TradingBot.run(test_mode=True) over a ticker list
BotSpecInit ==
    /\ RiskIdle /\ NoRiskInputs
    /\ data = <<>>
    /\ BacktesterInit /\ SignalsInit
    /\ NoMarkets /\ OptionsIdle
    /\ NoSeriesInputs /\ SeriesIdle
    /\ NoIndicators /\ GenIdle
    /\ BotInputs /\ BotIdle

BotNext ==
    \/ Run
    \/ ProcessTicker
    \/ Break
    \/ GetSignal
    \/ Validate
    \/ Size
    \/ Execute

SpecBot == BotSpecInit /\ [][BotNext]_vars

\* run is a sequential loop: a step that can be taken is taken
LiveSpecBot == SpecBot /\ WF_vars(BotNext)

----------------------------------------------------------------------------
(* Properties of RiskManager.validate_trade, checked under SpecRisk *)

\* the quantities as the specification states them
AvailableCash  == NumField(portfolio, "cash")
EstimatedCost  == Get(signal, "price", 0) * Get(signal, "quantity", 0)
PositionLimitOK ==
    EstimatedCost * MaxPositionSizeDen
        <= NumField(portfolio, "portfolio_value") * MaxPositionSizeNum

StatedRisk(d, price_key) ==
    Abs(Get(d, price_key, 0) - Get(d, "stop_loss", 0)) * Get(d, "quantity", 0)

OpenPositions ==
    IF "positions" \in DOMAIN portfolio THEN portfolio["positions"]
    ELSE [kind |-> "list", items |-> <<>>]

RECURSIVE StatedSum(_, _)
StatedSum(f, S) ==
    IF S = {} THEN 0
    ELSE LET k == CHOOSE x \in S : TRUE
         IN  StatedRisk(f[k], "current_price") + StatedSum(f, S \ {k})

StatedAggregateRisk == StatedSum(OpenPositions.items, DOMAIN OpenPositions.items)
StatedTradeRisk     == StatedRisk(signal, "price")
StatedRiskOK        == StatedAggregateRisk + StatedTradeRisk <= MaxPortfolioRiskCents

Present(d, k) == k \in DOMAIN d /\ d[k] > 0

\* C1: validate_trade returns false whenever the portfolio's available cash
\* is less than price*quantity, whatever the other two checks say.
C1_CashShortfallRejected ==
    (rm_pc = "validate" /\ "cash" \in DOMAIN portfolio /\ AvailableCash < EstimatedCost)
        => valid = FALSE

\* C2: validate_trade returns true if and only if price*quantity <= cash,
\* price*quantity <= portfolio_value*max_position_size and aggregate risk
\* plus trade risk <= max_portfolio_risk.
C2_ConjunctionOfThreeChecks ==
    (rm_pc = "validate" /\ "cash" \in DOMAIN portfolio)
        => (valid <=> (EstimatedCost <= AvailableCash /\ PositionLimitOK /\ StatedRiskOK))

\* C3: a signal whose price, quantity or stop_loss is missing or <= 0 is
\* rejected by validate_trade.
C3_FailClosedOnBadInput ==
    (rm_pc = "validate"
       /\ ~(Present(signal, "price") /\ Present(signal, "quantity")
              /\ Present(signal, "stop_loss")))
        => valid = FALSE

\* C4: with positions given as a mapping ticker -> position, the
\* portfolio-risk check passes exactly when the sum over the positions of
\* |current_price - stop_loss| * quantity plus |price - stop_loss| * quantity
\* of the trade is <= max_portfolio_risk.
C4_AggregateRiskOverMapping ==
    (/\ rm_pc = "validate"
     /\ OpenPositions.kind = "dict"
     /\ \A t \in DOMAIN OpenPositions.items : Present(OpenPositions.items[t], "stop_loss")
     /\ Present(signal, "price")
     /\ Present(signal, "quantity")
     /\ Present(signal, "stop_loss"))
        => (check_portfolio_risk(signal, portfolio) <=> StatedRiskOK)

(* Properties of RiskManager.calculate_position_size, checked under SpecRisk *)

WellFormedFrame == "close" \in stock_data.cols /\ Len(stock_data.close) > 0
LastClose       == stock_data.close[Len(stock_data.close)]

\* C5: calculate_position_size returns portfolio_value * max_position_size /
\* current_price when both are positive (100000, 0.1, 50 gives 200), and 0
\* when either is <= 0 or the input is malformed.
C5_PositionSize ==
    rm_pc = "size" =>
        LET pv == NumField(portfolio, "portfolio_value")
        IN  IF WellFormedFrame /\ pv > 0 /\ LastClose > 0
            THEN /\ position_size[2] > 0
                 /\ SameNumber(position_size,
                               <<pv * MaxPositionSizeNum, MaxPositionSizeDen * LastClose>>)
                 /\ (pv = 10000000 /\ LastClose = 5000)
                        => SameNumber(position_size, Num(200))
            ELSE SameNumber(position_size, Num(0))

C5_Witness ==
    /\ rm_pc = "size"
    /\ WellFormedFrame
    /\ NumField(portfolio, "portfolio_value") = 10000000
    /\ LastClose = 5000
    /\ SameNumber(position_size, Num(200))

----------------------------------------------------------------------------
(* Properties of the replay, checked under SpecBacktest *)

\* the step is an iteration of the replay loop
IsReplayStep == bt_pc \in Strategies /\ bt_pc' = bt_pc /\ i' = i + 1

\* C6: during a replay the position is FLAT (0) or LONG (1); no entry is
\* taken while LONG and no exit is recorded while FLAT.
C6_SinglePosition ==
    /\ [](position \in {0, 1})
    /\ [][IsReplayStep =>
            /\ position = 1 => (entry_price' = entry_price /\ entry_date' = entry_date)
            /\ position = 0 => (trades' = trades /\ current_capital' = current_capital)]_vars

C6_Witness ==
    /\ bt_pc \in Strategies
    /\ Len(reports) = 0
    /\ position = 1
    /\ Len(trades) >= 1

\* C7: the ledger grows by one trade, and the capital changes, exactly in a
\* loop iteration that takes the position from LONG to FLAT; a position
\* still LONG when the replay returns adds no trade and leaves the capital.
C7_OpenPositionNotClosed ==
    [][LET closes == IsReplayStep /\ position = 1 /\ position' = 0
       IN  /\ closes => (Len(trades') = Len(trades) + 1
                          /\ current_capital' /= current_capital)
           /\ ~closes => (trades' = trades /\ current_capital' = current_capital)]_vars

C7_Witness ==
    /\ bt_pc = "idle"
    /\ Len(reports) = 1
    /\ reports[1].strategy \in Strategies
    /\ position = 1
    /\ Len(trades) >= 1

StrictlyIncreasing == \A n \in 2..Len(data) : data[n].Close > data[n - 1].Close

\* bars at which the short average is above (below) the long one and was not
\* at the bar before
BullishCrossBars ==
    {n \in 2..Len(data) : Gt(data[n].SMA_20, data[n].SMA_50)
                           /\ ~Gt(data[n - 1].SMA_20, data[n - 1].SMA_50)}
BearishCrossBars ==
    {n \in 2..Len(data) : Lt(data[n].SMA_20, data[n].SMA_50)
                           /\ ~Lt(data[n - 1].SMA_20, data[n - 1].SMA_50)}
CrossEvents == Cardinality(BullishCrossBars) + Cardinality(BearishCrossBars)

OneMomentumRunReturned ==
    bt_pc = "idle" /\ Len(reports) = 1 /\ reports[1].strategy = "momentum"

\* C8 as stated: a momentum replay over a strictly increasing series with
\* exactly one cross event produces exactly one closed trade, with pnl >= 0.
C8_OneTradeOnRisingSeries ==
    (OneMomentumRunReturned /\ StrictlyIncreasing /\ CrossEvents = 1)
        => (Len(trades) = 1 /\ trades[1].profit_loss >= 0)

\* C8 amended: a momentum replay over a strictly increasing series takes no
\* entry and closes no trade, and its report is the no-trades marker.
C8_NoTradeOnRisingSeries ==
    StrictlyIncreasing =>
        /\ bt_pc = "momentum" => (position = 0 /\ trades = <<>>)
        /\ \A r \in DOMAIN reports :
               reports[r].strategy = "momentum" => reports[r].report = NoTradesReport

C8_Witness == OneMomentumRunReturned /\ StrictlyIncreasing /\ CrossEvents = 1

\* C10: a second run_backtest of a strategy on the same Backtester returns
\* the same report as the first.
C10_RunsIndependent ==
    \A a, b \in DOMAIN reports :
        reports[a].strategy = reports[b].strategy
            => reports[a].report = reports[b].report

----------------------------------------------------------------------------
(* Property of the latest-bar signal, checked under SpecSignals *)

\* C9: the cross signal does not fire again while the short/long ordering
\* persists: it is not reported BULLISH for two consecutive bars.
C9_CrossFiresOncePerInterval ==
    [][(latest >= 1 /\ latest' = latest + 1)
          => ~(cross_signal = "BULLISH" /\ cross_signal' = "BULLISH")]_vars

----------------------------------------------------------------------------
(* Properties of OptionsAnalysis, checked under SpecOptions *)

\* suggest_strategies has returned or raised for ticker t
Suggested(t) == op_pc[t] \in {"done", "suggested"}

\* what ticker t gets when it is the only one the instance ever serves
AloneQuotes(t) ==
    suggest_strategies(analyze_options_chain(FreshOA, market[t]),
                       market[t].trend, market[t].sentiment)

\* C11: for two tickers served by one OptionsAnalysis instance in any
\* interleaving of analyze_options_chain and suggest_strategies, the quotes
\* returned for a ticker are those it gets when processed alone.
C11_InterleavingSafe ==
    \A t \in Tickers : op_pc[t] = "done" => quotes[t] = AloneQuotes(t)

\* the family the selection policy names for ticker t
StatedFamily(t) ==
    CASE market[t].trend = "BULLISH" /\ market[t].sentiment > 60 -> "Covered Call"
      [] market[t].trend = "BEARISH" /\ market[t].sentiment < 40 -> "Put Spread"
      [] OTHER -> "Iron Condor"

QuoteFamilies(t) ==
    {quotes[t].list[n].strategy_type : n \in DOMAIN quotes[t].list}

\* C12: every quote of one suggest_strategies result is of the single family
\* the policy selects: Covered Call for BULLISH with sentiment > 0.6, Put
\* Spread for BEARISH with sentiment < 0.4, Iron Condor otherwise (0.6 and
\* 0.4 included).
C12_OneFamilyPerCall ==
    \A t \in Tickers : Suggested(t) => QuoteFamilies(t) \subseteq {StatedFamily(t)}

\* a result at the boundary sentiment 0.6 and one at 0.4, both Iron Condor
C12_Witness ==
    /\ op_pc["AAPL"] = "done"
    /\ op_pc["MSFT"] = "start"
    /\ market["AAPL"].sentiment \in {40, 60}
    /\ QuoteFamilies("AAPL") = {"Iron Condor"}

\* the legs the family selected for ticker t is built from
RequiredLegs(t) ==
    CASE StatedFamily(t) = "Covered Call" -> {"calls"}
      [] StatedFamily(t) = "Put Spread"   -> {"puts"}
      [] OTHER                            -> {"calls", "puts"}

\* a required leg is absent or empty, or no chain was supplied before the call
MissingLeg(t) ==
    \/ op_pc[t] = "suggested"
    \/ \E leg \in RequiredLegs(t) :
           leg \notin DOMAIN market[t].chain \/ market[t].chain[leg] = <<>>

\* C13: when a leg the selected family requires is missing, or no chain was
\* ever supplied, suggest_strategies returns an empty list and does not fault.
C13_MissingLegEmptyList ==
    \A t \in Tickers :
        (Suggested(t) /\ MissingLeg(t)) => quotes[t] = Returned(<<>>)

\* the marker of a ratio that was not computed
Undefined == <<>>

\* C14: in every quote risk_reward_ratio is max_profit / max_loss, it is
\* marked undefined when max_loss is 0, and computing it neither faults on a
\* zero divisor nor yields an infinite value.
C14_RatioIsProfitOverLoss ==
    \A t \in Tickers :
        Suggested(t) =>
            /\ quotes[t].fault /= "ZeroDivisionError"
            /\ \A n \in DOMAIN quotes[t].list :
                 LET q == quotes[t].list[n] IN
                 IF q.max_loss[1] = 0
                 THEN q.risk_reward_ratio = Undefined
                 ELSE /\ q.risk_reward_ratio /= Undefined
                      /\ q.risk_reward_ratio[2] /= 0
                      /\ q.risk_reward_ratio[1] * q.max_loss[1] * q.max_profit[2]
                            = q.max_profit[1] * q.risk_reward_ratio[2] * q.max_loss[2]

----------------------------------------------------------------------------
(* Properties of the backtest reports, checked under SpecBacktest *)

\* the report of the replay that has just returned
LastReport == reports[Len(reports)]

\* a replay has returned and took no entry: entry_date is still the value
\* run_backtest starts from
ReplayReturnedWithoutEntry ==
    /\ bt_pc = "idle"
    /\ Len(reports) >= 1
    /\ LastReport.strategy \in Strategies
    /\ entry_date = -1

\* C15: a replay in which no entry ever qualifies returns the report that
\* carries the explicit no-trades marker.
C15_NoEntryGivesMarker ==
    ReplayReturnedWithoutEntry => LastReport.report = NoTradesReport

\* C16: the trade-level Sharpe ratio of a report is 0 when fewer than two
\* trades were closed, and is never NaN or infinite: with two or more trades
\* of equal pnl_pct it is 0, otherwise mean(pnl_pct) / stddev(pnl_pct).
C16_TradeSharpeGuarded ==
    \A k \in DOMAIN reports :
        "sharpe_ratio" \in DOMAIN reports[k].report =>
            LET r == reports[k].report IN
            /\ r.sharpe_ratio.kind \in {"zero", "mean_over_std"}
            /\ r.total_trades < 2 => r.sharpe_ratio.kind = "zero"

\* C18: no backtest entry point raises to its caller: every call, an unknown
\* strategy tag included, returns a report.
C18_FailSoft ==
    \A k \in DOMAIN reports : "raised" \notin DOMAIN reports[k].report

----------------------------------------------------------------------------
(* Properties of the series-level entry points, checked under SpecSeries *)

\* C17: the series-level Sharpe ratio of run_backtest is 0 whenever the
\* annualized volatility is 0, and is not NaN for any non-empty price series,
\* a single bar and constant prices included.
C17_SeriesSharpeGuarded ==
    (ser_pc = "backtest" /\ Len(prices) >= 1) =>
        /\ series_report.sharpe_ratio /= FNaN
        /\ series_report.volatility = FNum(0, 1)
              => series_report.sharpe_ratio = FNum(0, 1)

\* the mean of the `period` closes that end at 0-based index idx
WindowMean(idx) == <<SumSeq(SubSeq(prices, idx - period + 2, idx + 1)), period>>

\* C20: for a series of length L and a window w <= L the SMA has length L,
\* its entries at indices 0..w-2 are the unavailable sentinel, and each entry
\* at an index w-1..L-1 is the mean of the w closes ending at that index.
C20_SmaShape ==
    (ser_pc = "sma" /\ period <= Len(prices)) =>
        /\ Len(sma) = Len(prices)
        /\ \A idx \in 0..(period - 2) : sma[idx + 1] = NaN
        /\ \A idx \in (period - 1)..(Len(prices) - 1) :
             /\ sma[idx + 1] /= NaN
             /\ SameNumber(sma[idx + 1], WindowMean(idx))

C20_Witness ==
    /\ ser_pc = "sma"
    /\ period = 2
    /\ prices = <<1, 2, 4, 1>>
    /\ sma = <<NaN, <<3, 2>>, <<6, 2>>, <<5, 2>>>>

----------------------------------------------------------------------------
(* Property of TechnicalIndicators on the caller's frame, under SpecSignals *)

\* C19: computing the indicators adds no column to the caller's price table:
\* after any number of computations its columns are those first supplied.
C19_InputTableUnchanged == frame_cols = PriceColumns

----------------------------------------------------------------------------
(* Property of the RSI column, checked under SpecSeries *)

\* every close-to-close delta of the window that ends at row n is a gain
AllGains(n) ==
    /\ n - period + 1 >= 2
    /\ \A m \in (n - period + 1)..n : prices[m] > prices[m - 1]

\* C21: every RSI value produced lies in [0, 100]: it is 50 while the
\* history is shorter than the period, never NaN once the window is
\* satisfied (a window of constant prices included), and 100 when every
\* delta of the window is a gain.
C21_RsiInRange ==
    ser_pc = "rsi" =>
        \A n \in DOMAIN rsi :
            /\ rsi[n] /= NaN
            /\ Ge(rsi[n], Num(0)) /\ Le(rsi[n], Num(100))
            /\ n < period => SameNumber(rsi[n], Num(50))
            /\ AllGains(n) => SameNumber(rsi[n], Num(100))

----------------------------------------------------------------------------
(* Properties of the replay state machine, checked under SpecBacktest *)

\* the Trade appended by the step
NewTrade == trades'[Len(trades')]

\* C23: a replay starts FLAT; a FLAT bar with the entry trigger goes LONG and
\* records the bar's close and date; a LONG bar with the exit trigger goes
\* FLAT and appends one Trade with pnl = exit close - entry close, pnl_pct =
\* pnl / entry close * 100 and holding period = exit date - entry date; any
\* other bar leaves position, entry record, ledger and capital unchanged.
C23_ReplayTransitions ==
    /\ [][(bt_pc = "idle" /\ bt_pc' \in Strategies) => position' = 0]_vars
    /\ [][IsReplayStep =>
            LET bar  == data[i + 1]
                prev == data[i]
            IN  IF position = 0 /\ EntryTrigger(bt_pc, bar, prev)
                THEN /\ position' = 1
                     /\ entry_price' = bar.Close
                     /\ entry_date' = i
                     /\ trades' = trades
                     /\ current_capital' = current_capital
                ELSE IF position = 1 /\ ExitTrigger(bt_pc, bar, prev)
                THEN /\ position' = 0
                     /\ Len(trades') = Len(trades) + 1
                     /\ SubSeq(trades', 1, Len(trades)) = trades
                     /\ NewTrade.profit_loss = bar.Close - entry_price
                     /\ SameNumber(NewTrade.profit_loss_pct,
                                   <<100 * (bar.Close - entry_price), entry_price>>)
                     /\ NewTrade.holding_period = i - entry_date
                ELSE UNCHANGED <<position, entry_price, entry_date, trades,
                                 current_capital>>]_vars

\* a first replay that has closed one trade and is FLAT again
C23_Witness ==
    /\ bt_pc = "mean_reversion"
    /\ Len(reports) = 0
    /\ position = 0
    /\ Len(trades) = 1
    /\ trades[1].holding_period > 0
    /\ trades[1].profit_loss /= 0

\* C24: the running capital is the initial capital compounded by the pnl_pct
\* of each trade closed so far in the replay, so a replay starts from the
\* initial capital; the reported final_capital is that product over the
\* trades of the report.
C24_CapitalCompounds ==
    /\ current_capital.initial = initial_capital
    /\ current_capital.compounded
          = [n \in DOMAIN trades |-> trades[n].profit_loss_pct]
    /\ (bt_pc \in Strategies /\ i = Warmup) => current_capital.compounded = <<>>
    /\ \A k \in DOMAIN reports :
          "final_capital" \in DOMAIN reports[k].report =>
              Len(reports[k].report.final_capital.compounded)
                  = reports[k].report.total_trades

\* the indicator values the trigger of the strategy reads at bar n (0-based)
TriggerInputs(strategy, n) ==
    IF strategy = "momentum"
    THEN {data[n + 1].SMA_20, data[n + 1].SMA_50, data[n].SMA_20, data[n].SMA_50}
    ELSE {data[n + 1].RSI}

\* C25: at every replayed bar the indicator values the trigger reads at the
\* current and the previous bar are available.
C25_WarmupCoversWindows ==
    (bt_pc \in Strategies /\ i < Len(data)) => NaN \notin TriggerInputs(bt_pc, i)

\* C30: the ledger is chronologically ordered and non-overlapping: every
\* Trade is entered strictly before it is exited, and exited strictly before
\* the next Trade of the ledger is entered.
C30_LedgerOrdered ==
    /\ \A n \in DOMAIN trades : trades[n].entry_date < trades[n].exit_date
    /\ \A n \in 1..(Len(trades) - 1) :
          trades[n].exit_date < trades[n + 1].entry_date


\* the contributions the indicator values call for, as <<group, tag, amount>>
\* in hundredths
Applied(ind) ==
    {<<"rsi", "oversold", 20>> : x \in {1} \cap {IF Lt(ind.rsi, Num(30)) THEN 1 ELSE 0}}
    \cup {<<"rsi", "overbought", -20>> : x \in {1} \cap {IF Gt(ind.rsi, Num(70)) THEN 1 ELSE 0}}
    \cup {<<"macd", "bullish_momentum", 15>> : x \in {1} \cap {IF ind.macd_signal > 0 THEN 1 ELSE 0}}
    \cup {<<"macd", "bearish_momentum", -15>> : x \in {1} \cap {IF ind.macd_signal < 0 THEN 1 ELSE 0}}
    \cup {<<"volume", "increasing_volume", 10>> :
             x \in {1} \cap {IF ind.volume_profile.volume_trend > 10 THEN 1 ELSE 0}}
    \cup {<<"trend", "uptrend", 25>> : x \in {1} \cap {IF ind.trend.trend = "uptrend" THEN 1 ELSE 0}}
    \cup {<<"trend", "uptrend", 10>> : x \in {1} \cap {IF ind.trend.trend = "weak_uptrend" THEN 1 ELSE 0}}
    \cup {<<"trend", "downtrend", -25>> : x \in {1} \cap {IF ind.trend.trend = "downtrend" THEN 1 ELSE 0}}
    \cup {<<"trend", "downtrend", -10>> : x \in {1} \cap {IF ind.trend.trend = "weak_downtrend" THEN 1 ELSE 0}}

RECURSIVE SumAmounts(_)
SumAmounts(S) ==
    IF S = {} THEN 0
    ELSE LET e == CHOOSE x \in S : TRUE IN e[3] + SumAmounts(S \ {e})

CompleteIndicators ==
    {"rsi", "macd_signal", "volume_profile", "trend"} \subseteq DOMAIN indicators

\* C26: for a complete indicator dictionary generate_signals returns the sum
\* of the contributions that applied, clamped to [-1, 1], as confidence, and
\* its tag list holds exactly the tags of those contributions, each once and
\* at most one per indicator group.
C26_ConfidenceIsSumOfContributions ==
    (generated /= <<>> /\ CompleteIndicators) =>
        LET out == generated[1]
            app == Applied(indicators)
            sum == SumAmounts(app)
        IN  /\ out.confidence
                 = (IF sum > 100 THEN 100 ELSE IF sum < -100 THEN -100 ELSE sum)
            /\ {out.signals[n] : n \in DOMAIN out.signals} = {e[2] : e \in app}
            /\ Len(out.signals) = Cardinality(app)
            /\ \A g \in {"rsi", "macd", "volume", "trend"} :
                  Cardinality({n \in DOMAIN out.signals :
                      \E e \in app : e[1] = g /\ e[2] = out.signals[n]}) <= 1

C26_Witness ==
    /\ generated /= <<>>
    /\ indicators = MkIndicators(Num(20), 1, 20, "weak_uptrend")
    /\ generated[1].signals
         = <<"oversold", "bullish_momentum", "increasing_volume", "uptrend">>
    /\ generated[1].confidence = 55


\* C22: whenever the data source holds the ticker's history, the call of
\* Pipeline.process made by the bot returns a signal that is not None and has
\* an 'action' field.
C22_ProcessReturnsSignal ==
    [][(bot_pc = "pipeline" /\ collector.history[tickers[ticker_idx]]) =>
          /\ bot_signal' /= None
          /\ "action" \in DOMAIN bot_signal'[1]]_vars

\* the passes that ended without a signal
FailedPasses == {n \in DOMAIN processed : process(collector, processed[n]) = None}

\* C27: run(test_mode=True) terminates, and when it has terminated the
\* tickers processed are exactly the ticker list, each element once and in
\* list order, whatever failed on the way; until then the processed tickers
\* are a prefix of the list.
C27_EveryTickerOnceInOrder ==
    /\ <>[](bot_pc = "done" /\ processed = tickers)
    /\ [](/\ Len(processed) <= Len(tickers)
          /\ processed = SubSeq(tickers, 1, Len(processed)))

C27_Witness ==
    /\ bot_pc = "done"
    /\ Len(tickers) = MaxTickers
    /\ processed = tickers
    /\ 1 \in FailedPasses
    /\ \E n \in DOMAIN executed : executed[n].pass = MaxTickers

Reduced(f) ==
    LET g == GCD(Abs(f[1]), f[2]) IN <<f[1] \div g, f[2] \div g>>

====
